---- MODULE Spec2Model ----
(***************************************************************************)
(* The dataset store of chart_classification: the directory tree under     *)
(* data/, the dataset constructor, deletion, materialisation (make_data),  *)
(* the metadata accessor and the worker-pool map that drives per-image     *)
(* work.                                                                   *)
(***************************************************************************)
EXTENDS Integers, Sequences, FiniteSets, TLC

VARIABLES
    dirs,       \* which of data, data/images, data/datasets exist
    store_log,  \* data/log.csv, the store ledger
    datasets,   \* index i |-> contents of data/datasets/dataset-<i>; DOMAIN = os.listdir
    ret,        \* the last call made by the caller and how it ended
    frame,      \* the call in progress while its process_map runs (worker-pool specification)
    pool,       \* the multiprocessing.Pool of the process_map in progress
    procs       \* two callers of new_dataset, each at its own line of the function

vars == <<dirs, store_log, datasets, ret, frame, pool, procs>>

(***************************************************************************)
(* Bounds and program constants.                                           *)
(***************************************************************************)
\* dataset indices explored: dataset-0 .. dataset-(MaxDatasets-1)
MaxDatasets == 3
\* dataset directories alive at once in the pipeline specifications
MaxLive == 1
\* processing.py: POOL_SIZE
POOL_SIZE == 4

Indices == 0 .. (MaxDatasets - 1)

(***************************************************************************)
(* Python values.                                                          *)
(***************************************************************************)
PyNone == "None"
PyBool(b) == IF b THEN "True" ELSE "False"

NoExc == "none"

RECURSIVE Concat(_)
Concat(ss) == IF ss = <<>> THEN <<>> ELSE Head(ss) \o Concat(Tail(ss))

\* Body(x), with x computed once
With(x, Body(_)) == CHOOSE out \in {Body(v) : v \in {x}} : TRUE

Range(s) == {s[k] : k \in 1 .. Len(s)}

(***************************************************************************)
(* Paths.  A file name is a stem and an extension; inside a dataset the    *)
(* path also carries the dataset it lies in.                               *)
(***************************************************************************)
Src(stem, ext) == [stem |-> stem, ext |-> ext]
InDataset(ds, stem, ext) == [ds |-> ds, stem |-> stem, ext |-> ext]
basename(p) == [stem |-> p.stem, ext |-> p.ext]

(***************************************************************************)
(* The files outside the datasets: what lies on disk beside the store      *)
(* ledger.  a.jpg and b.png are store files, c.jpg is a raw file that is   *)
(* not in the store, m.jpg does not exist.                                 *)
(***************************************************************************)
FileA == Src("a", "jpg")
FileB == Src("b", "png")
FileC == Src("c", "jpg")
FileM == Src("m", "jpg")

Pixels(src, hist) == [src |-> src, hist |-> hist]

SrcDisk ==
    (FileA :> Pixels("a", <<"gray">>)) @@
    (FileB :> Pixels("b", <<"png">>)) @@
    (FileC :> Pixels("c", <<>>))

(***************************************************************************)
(* External registries (conversions.py, transforms.py, store.py).          *)
(***************************************************************************)
ConversionKeys == {"png", "gray", "scale"}
TransformKeys == {"t1", "t2", "t3"}
CLASSES == [c \in {"none", "bar", "pie"} |->
              IF c = "none" THEN 0 ELSE IF c = "bar" THEN 1 ELSE 2]
DEFAULT_CLASS == "none"

(***************************************************************************)
(* CSV ledgers: a header and rows.  to_csv writes the frame's 0-based      *)
(* index as the first column, named by index_label.                        *)
(***************************************************************************)
NoCsv == [present |-> FALSE, header |-> <<>>, rows |-> <<>>]

to_csv(columns, data, index_label) ==
    [present |-> TRUE,
     header |-> <<index_label>> \o columns,
     rows |-> [k \in 1 .. Len(data) |-> [Index |-> k - 1, row |-> data[k]]]]

\* the store ledger as store.py leaves it: File, Class and one flag per conversion
StoreRow(file, class, done) ==
    [File |-> file, Class |-> class, flags |-> [c \in ConversionKeys |-> c \in done]]

StoreLedger ==
    to_csv(<<"File", "Class", "png", "gray", "scale">>,
           <<StoreRow(FileA, "bar", {"gray"}), StoreRow(FileB, "pie", {"png"})>>,
           "Index")

(***************************************************************************)
(* JSON: process.json is a token sequence.                                 *)
(***************************************************************************)
\* a Python dict with the keys process.json uses, in insertion order
Dict(keys, conversions, transforms, bundled) ==
    [keys |-> keys, Conversions |-> conversions, Transforms |-> transforms,
     Bundled |-> bundled]

NoDict == Dict(<<>>, <<>>, <<>>, PyNone)

JsonLiteral(v) == IF v = "True" THEN "true" ELSE IF v = "False" THEN "false" ELSE "null"
PyLiteral(t) == IF t = "true" THEN "True" ELSE IF t = "false" THEN "False" ELSE PyNone

JsonMember(data, key) ==
    IF key = "Conversions" THEN <<key, "[">> \o data.Conversions \o <<"]">>
    ELSE IF key = "Transforms" THEN <<key, "[">> \o data.Transforms \o <<"]">>
    ELSE <<key, JsonLiteral(data.Bundled)>>

json_dump(data) ==
    <<"{">> \o Concat([k \in 1 .. Len(data.keys) |-> JsonMember(data, data.keys[k])])
            \o <<"}">>

\* the index of the first "]" at or after position i, 0 when there is none
RECURSIVE CloseAt(_, _)
CloseAt(toks, i) ==
    IF i > Len(toks) THEN 0
    ELSE IF toks[i] = "]" THEN i
    ELSE CloseAt(toks, i + 1)

SetKey(data, key, list, lit) ==
    LET keys == IF key \in Range(data.keys) THEN data.keys ELSE Append(data.keys, key)
    IN  IF key = "Conversions" THEN [data EXCEPT !.keys = keys, !.Conversions = list]
        ELSE IF key = "Transforms" THEN [data EXCEPT !.keys = keys, !.Transforms = list]
        ELSE [data EXCEPT !.keys = keys, !.Bundled = lit]

\* parse the members from position i on; a token after the closing brace is
\* "Extra data" and fails the load
RECURSIVE ParseMembers(_, _, _)
ParseMembers(toks, i, acc) ==
    IF i > Len(toks) THEN [ok |-> FALSE, data |-> NoDict]
    ELSE IF toks[i] = "}" THEN [ok |-> i = Len(toks), data |-> IF i = Len(toks) THEN acc ELSE NoDict]
    ELSE IF i + 1 > Len(toks) THEN [ok |-> FALSE, data |-> NoDict]
    ELSE IF toks[i + 1] = "["
         THEN LET j == CloseAt(toks, i + 2)
              IN  IF j = 0 THEN [ok |-> FALSE, data |-> NoDict]
                  ELSE ParseMembers(toks, j + 1,
                                    SetKey(acc, toks[i], SubSeq(toks, i + 2, j - 1), PyNone))
         ELSE ParseMembers(toks, i + 2, SetKey(acc, toks[i], <<>>, PyLiteral(toks[i + 1])))

json_load(toks) ==
    IF Len(toks) = 0 \/ toks[1] # "{" THEN [ok |-> FALSE, data |-> NoDict]
    ELSE ParseMembers(toks, 2, NoDict)

(***************************************************************************)
(* A dataset directory.                                                    *)
(***************************************************************************)
\* has: which of process.json, log.csv, X.npy, Y.npy exist; images: the files
\* of images/ by basename.  req, entries, calls and made are history: the
\* constructor's arguments, its resolved entries, the conversions each
\* entry's task invoked, the last successful make_data, and the last
\* make_imageset of construction.py that returned True.
NoRequest == [via |-> "none", filenames |-> <<>>, conversions |-> <<>>, from_store |-> FALSE]
NoMade == [ok |-> FALSE, transforms |-> <<>>, bundled |-> FALSE, rerun |-> FALSE]
NoBuilt == [ok |-> FALSE, transforms |-> <<>>]

EmptyDir ==
    [has |-> {}, process |-> <<>>, log |-> NoCsv, X |-> <<>>, Y |-> <<>>,
     images |-> <<>>,
     req |-> NoRequest, entries |-> <<>>, calls |-> <<>>, made |-> NoMade,
     built |-> NoBuilt]

\* the metadata record and the ledger of a dataset directory, as files
Meta(dir) ==
    [has |-> dir.has \cap {"process", "log"}, process |-> dir.process, log |-> dir.log]

\* open(path, "w+") and write: the file is truncated first
WriteFile(dir, name, text) ==
    IF name = "process" THEN [dir EXCEPT !.has = @ \cup {name}, !.process = text]
    ELSE IF name = "X" THEN [dir EXCEPT !.has = @ \cup {name}, !.X = text]
    ELSE [dir EXCEPT !.has = @ \cup {name}, !.Y = text]

WriteCsv(dir, csv) == [dir EXCEPT !.has = @ \cup {"log"}, !.log = csv]

(***************************************************************************)
(* The call record.                                                        *)
(***************************************************************************)
Ret(op, ds, exc, val, steps) ==
    [op |-> op, ds |-> ds, exc |-> exc, val |-> val, steps |-> steps]

\* the caller's position inside a call whose process_map is running or has
\* just returned: the call, its arguments, what is left to do, what the map
\* gave back, and process.json and log.csv as they were when the map began
Frame(op, stage, ds, transforms, todo, bundled, exc, list, before) ==
    [op |-> op, stage |-> stage, ds |-> ds, transforms |-> transforms, todo |-> todo,
     bundled |-> bundled, exc |-> exc, list |-> list, before |-> before]

NoFrame == Frame("idle", "", -1, <<>>, <<>>, FALSE, "none", <<>>, Meta(EmptyDir))

(***************************************************************************)
(* processing.py: the conversions.  Each takes the images of a dataset     *)
(* directory and a path, and gives the images afterwards, the new path     *)
(* and the exception raised, if any.                                       *)
(***************************************************************************)
Done(fs, path, exc) == [fs |-> fs, path |-> path, exc |-> exc]

Without(fs, p) == [q \in (DOMAIN fs) \ {p} |-> fs[q]]

Converted(px, c) == Pixels(px.src, Append(px.hist, c))

\* Image.open raises on a missing file; the PNG is saved beside the
\* original and the original path is then removed, also when both are the
\* same path
convert_to_png(fs, fp) ==
    IF fp \notin DOMAIN fs THEN Done(fs, fp, "FileNotFoundError")
    ELSE LET new_fp == [fp EXCEPT !.ext = "png"]
             saved == (new_fp :> Converted(fs[fp], "png")) @@ fs
         IN  Done(Without(saved, fp), new_fp, NoExc)

make_grayscale(fs, fp) ==
    IF fp \notin DOMAIN fs THEN Done(fs, fp, "FileNotFoundError")
    ELSE Done([fs EXCEPT ![fp] = Converted(@, "gray")], fp, NoExc)

scale_image(fs, fp) ==
    IF fp \notin DOMAIN fs THEN Done(fs, fp, "FileNotFoundError")
    ELSE Done([fs EXCEPT ![fp] = Converted(@, "scale")], fp, NoExc)

\* conversions.py: the registry, by key
CONVERSIONS(c, fs, fp) ==
    IF c = "png" THEN convert_to_png(fs, fp)
    ELSE IF c = "gray" THEN make_grayscale(fs, fp)
    ELSE scale_image(fs, fp)

Result(exc, val) == [exc |-> exc, val |-> val]

\* transforms.py: a transform maps a decoded array to an array; t3 is one
\* that raises on the arrays decoded from a.jpg
Arr(px, tf) == [src |-> px.src, hist |-> px.hist, tf |-> tf]
TRANSFORMS(t, arr) ==
    IF t = "t3" /\ arr.src = "a" THEN Result("ValueError", arr)
    ELSE Result(NoExc, [arr EXCEPT !.tf = Append(@, t)])

(***************************************************************************)
(* The functions handed to process_map.  Every call gives the dataset      *)
(* directory afterwards, the exception raised and the value returned.      *)
(***************************************************************************)
Out(dir, exc, val) == [dir |-> dir, exc |-> exc, val |-> val]

Called(file, convs) == [file |-> file, convs |-> convs]

\* the loop of _copy_and_apply: img = CONVERSIONS[c](img) for each c in turn
RECURSIVE ApplyInOrder(_, _, _, _)
ApplyInOrder(fs, img, cs, invoked) ==
    IF cs = <<>> THEN [fs |-> fs, img |-> img, exc |-> NoExc, invoked |-> invoked]
    ELSE IF Head(cs) \notin ConversionKeys
         THEN [fs |-> fs, img |-> img, exc |-> "KeyError", invoked |-> invoked]
    ELSE With(CONVERSIONS(Head(cs), fs, img), LAMBDA r :
             IF r.exc # NoExc
             THEN [fs |-> r.fs, img |-> img, exc |-> r.exc,
                   invoked |-> Append(invoked, Head(cs))]
             ELSE ApplyInOrder(r.fs, r.path, Tail(cs), Append(invoked, Head(cs))))

\* task k of the constructor's map: copy the file into images/, then convert
_copy_and_apply(ds, dir, k, file, conversions_to_apply) ==
    LET img == InDataset(ds, basename(file).stem, basename(file).ext)
    IN  IF file \notin DOMAIN SrcDisk
        THEN Out([dir EXCEPT !.calls = (k :> Called(file, <<>>)) @@ @],
                 "FileNotFoundError", img)
        ELSE With(ApplyInOrder((img :> SrcDisk[file]) @@ dir.images, img,
                               conversions_to_apply, <<>>), LAMBDA r :
                 Out([dir EXCEPT !.images = r.fs,
                                 !.calls = (k :> Called(file, r.invoked)) @@ @],
                     r.exc, r.img))

_load_image_array(dir, fp) ==
    IF fp \notin DOMAIN dir.images THEN Out(dir, "FileNotFoundError", Arr(Pixels("", <<>>), <<>>))
    ELSE Out(dir, NoExc, Arr(dir.images[fp], <<>>))

Fn(name, key) == [name |-> name, key |-> key]

\* one call f(arg), or f(*arg) in packed mode, made by a worker for task k
Call(f, packed, ds, dir, k, arg) ==
    IF f.name = "_copy_and_apply" THEN _copy_and_apply(ds, dir, k, arg[1], arg[2])
    ELSE IF f.name \in {"_load_image_array", "load_image_array"}
         THEN _load_image_array(dir, arg)
    ELSE With(TRANSFORMS(f.key, arg), LAMBDA t : Out(dir, t.exc, t.val))

(***************************************************************************)
(* processing.py: process_map.  The pool runs every task; a worker that    *)
(* finishes task k stores its result in slot k.  done lists the tasks in   *)
(* the order they finished.                                                *)
(***************************************************************************)
NoPool ==
    [active |-> FALSE, f |-> Fn("", ""), packed |-> FALSE, ds |-> -1, args |-> <<>>,
     taken |-> {}, done |-> <<>>, res |-> <<>>]

NewPool(f, packed, ds, args) ==
    [active |-> TRUE, f |-> f, packed |-> packed, ds |-> ds, args |-> args,
     taken |-> {}, done |-> <<>>, res |-> <<>>]

\* a worker runs task k to its end and hands the result back
WorkerRun(dir, p, k) ==
    With(Call(p.f, p.packed, p.ds, dir, k, p.args[k]), LAMBDA o :
        [dir |-> o.dir,
         pool |-> [p EXCEPT !.taken = @ \ {k}, !.done = Append(@, k),
                            !.res = (k :> Result(o.exc, o.val)) @@ @]])

RECURSIVE RunInOrder(_, _, _)
RunInOrder(dir, p, order) ==
    IF order = <<>> THEN [dir |-> dir, pool |-> p]
    ELSE With(WorkerRun(dir, p, Head(order)), LAMBDA s :
             RunInOrder(s.dir, s.pool, Tail(order)))

Failed(p) == {k \in DOMAIN p.res : p.res[k].exc # NoExc}

\* a variant: the results in the order the tasks finished (imap_unordered)
process_map_unordered(p) ==
    IF Failed(p) # {}
    THEN [exc |-> p.res[CHOOSE k \in Failed(p) : TRUE].exc, list |-> <<>>]
    ELSE [exc |-> NoExc, list |-> [j \in 1 .. Len(p.done) |-> p.res[p.done[j]].val]]

\* a variant: a task's exception is swallowed and its slot returned as it is
process_map_partial(p) ==
    [exc |-> NoExc, list |-> [k \in 1 .. Len(p.args) |-> p.res[k].val]]

\* what map/starmap hand back once every task is done: the exception of the
\* first task that failed, else the results by input position
process_map(p) ==
    IF Failed(p) # {}
    THEN LET first == CHOOSE j \in 1 .. Len(p.done) :
                          /\ p.done[j] \in Failed(p)
                          /\ \A h \in 1 .. (j - 1) : p.done[h] \notin Failed(p)
         IN  [exc |-> p.res[p.done[first]].exc, list |-> <<>>]
    ELSE [exc |-> NoExc, list |-> [k \in 1 .. Len(p.args) |-> p.res[k].val]]

Perms(n) == {s \in [1 .. n -> 1 .. n] : \A a, b \in 1 .. n : s[a] = s[b] => a = b}

(***************************************************************************)
(* pipeline/storage.py                                                     *)
(***************************************************************************)
RootDirs == {"data", "data/images", "data/datasets"}

\* os.mkdir("data") raises FileExistsError when data exists, and the two
\* mkdirs after it are then skipped
init_data_store(d) ==
    IF "data" \in d THEN d ELSE d \cup RootDirs

init_label_store ==
    to_csv(<<"File", "Class", "png", "gray", "scale">>, <<>>, "")

\* a variant: os.makedirs(path, exist_ok=True), which accepts a directory
\* that is already there
os_makedirs_exist_ok(existing, i) == NoExc

\* os.mkdir(f"data/datasets/dataset-{i}"), given the directories there are
os_mkdir(existing, i) == IF i \in existing THEN "FileExistsError" ELSE NoExc

\* a variant: the index is the number of directories listed
FreshIndexCount(listing) == Cardinality(listing)

\* next(i for i in itertools.count() if f"dataset-{i}" not in datasets)
FreshIndex(listing) ==
    CHOOSE i \in 0 .. Cardinality(listing) :
        /\ i \notin listing
        /\ \A j \in 0 .. (i - 1) : j \in listing

Request(via, filenames, conversions, from_store) ==
    [via |-> via, filenames |-> filenames, conversions |-> conversions,
     from_store |-> from_store]

storage_new_dataset ==
    LET a == WriteCsv(EmptyDir, to_csv(<<"File", "Class">>, <<>>, ""))
        b == WriteFile(a, "process",
                       json_dump(Dict(<<"Conversions", "Transforms">>, <<>>, <<>>, PyNone)))
    IN  [b EXCEPT !.req = Request("storage", <<>>, <<>>, FALSE)]

(***************************************************************************)
(* pipeline/dataset.py: new_dataset                                        *)
(***************************************************************************)
Entry(r, convs) == [r |-> r, convs |-> convs]

\* a variant: the flags of the store ledger are not consulted
conversions_left_all(rows, filenames, conversions, from_store) ==
    IF from_store
    THEN LET df == SelectSeq(rows, LAMBDA x : x.row.File \in Range(filenames))
         IN  [k \in 1 .. Len(df) |-> Entry(df[k].row, conversions)]
    ELSE [k \in 1 .. Len(filenames) |->
             Entry(StoreRow(filenames[k], DEFAULT_CLASS, {}), conversions)]

\* the rows of the store ledger whose File is among filenames, each with the
\* requested conversions its flags do not mark as done; or every filename
\* with the default class and every requested conversion
conversions_left(rows, filenames, conversions, from_store) ==
    IF from_store
    THEN LET df == SelectSeq(rows, LAMBDA x : x.row.File \in Range(filenames))
         IN  [k \in 1 .. Len(df) |->
                 Entry(df[k].row,
                       SelectSeq(conversions, LAMBDA c : ~ df[k].row.flags[c]))]
    ELSE [k \in 1 .. Len(filenames) |->
             Entry(StoreRow(filenames[k], DEFAULT_CLASS, {}), conversions)]

\* pd.read_csv("data/log.csv", index_col="Index")
ReadStore(slog) ==
    IF ~ slog.present THEN "FileNotFoundError"
    ELSE IF slog.header[1] # "Index" THEN "ValueError"
    ELSE NoExc

\* new_dataset up to its process_map call: the directory with process.json,
\* the resolved entries and the pool of the map
new_dataset_call(i, slog, filenames, conversions, from_store) ==
    LET made == WriteFile(EmptyDir, "process",
                    json_dump(Dict(<<"Conversions", "Transforms", "Bundled">>,
                                   conversions, <<>>, PyNone)))
        dir == [made EXCEPT !.req = Request("dataset", filenames, conversions, from_store)]
        exc == IF from_store THEN ReadStore(slog) ELSE NoExc
        left == IF exc = NoExc
                THEN conversions_left(slog.rows, filenames, conversions, from_store)
                ELSE <<>>
    IN  [exc |-> exc,
         dir |-> [dir EXCEPT !.entries = left],
         pool |-> NewPool(Fn("_copy_and_apply", ""), TRUE, i,
                          [k \in 1 .. Len(left) |-> <<left[k].r.File, left[k].convs>>])]

Min(a, b) == IF a < b THEN a ELSE b

\* new_dataset after its process_map: zip the new paths with the entries'
\* classes and write the dataset ledger
new_dataset_return(dir, new_images) ==
    LET n == Min(Len(new_images), Len(dir.entries))
        new_data == [k \in 1 .. n |->
                        [File |-> new_images[k], Class |-> dir.entries[k].r.Class]]
    IN  WriteCsv(dir, to_csv(<<"File", "Class">>, new_data, "Index"))

\* the whole call, the pool's tasks finishing in the given order
new_dataset(i, slog, filenames, conversions, from_store, order) ==
    With(new_dataset_call(i, slog, filenames, conversions, from_store), LAMBDA c :
        IF c.exc # NoExc THEN [exc |-> c.exc, dir |-> c.dir]
        ELSE With(RunInOrder(c.dir, c.pool, order), LAMBDA run :
             With(process_map(run.pool), LAMBDA m :
                 IF m.exc # NoExc THEN [exc |-> m.exc, dir |-> run.dir]
                 ELSE [exc |-> NoExc, dir |-> new_dataset_return(run.dir, m.list)])))

\* how many tasks the call's map has
TaskCount(slog, filenames, conversions, from_store) ==
    Len(new_dataset_call(0, slog, filenames, conversions, from_store).pool.args)

(***************************************************************************)
(* pipeline/dataset.py: make_data and get_process                          *)
(***************************************************************************)
\* a variant: the record is dumped as it was loaded, the key not set
UpdateProcessStale(dir, key, list, lit) ==
    IF "process" \notin dir.has THEN [exc |-> "FileNotFoundError", dir |-> dir]
    ELSE With(json_load(dir.process), LAMBDA loaded :
        IF ~ loaded.ok THEN [exc |-> "JSONDecodeError", dir |-> dir]
        ELSE [exc |-> NoExc, dir |-> WriteFile(dir, "process", json_dump(loaded.data))])

\* json.load the metadata, set one key, reopen with "w+" and json.dump
UpdateProcess(dir, key, list, lit) ==
    IF "process" \notin dir.has THEN [exc |-> "FileNotFoundError", dir |-> dir]
    ELSE With(json_load(dir.process), LAMBDA loaded :
        IF ~ loaded.ok THEN [exc |-> "JSONDecodeError", dir |-> dir]
        ELSE [exc |-> NoExc,
              dir |-> WriteFile(dir, "process",
                                json_dump(SetKey(loaded.data, key, list, lit)))])

MapOver(f, ds, dir, args, order) ==
    With(RunInOrder(dir, NewPool(f, FALSE, ds, args), order).pool, LAMBDA p : process_map(p))

\* for f in transforms: images = process_map(TRANSFORMS[f], images)
RECURSIVE ApplyTransforms(_, _, _, _, _)
ApplyTransforms(images, transforms, ds, dir, order) ==
    IF transforms = <<>> THEN [exc |-> NoExc, list |-> images]
    ELSE IF Head(transforms) \notin TransformKeys THEN [exc |-> "KeyError", list |-> <<>>]
    ELSE With(MapOver(Fn("TRANSFORMS", Head(transforms)), ds, dir, images, order), LAMBDA m :
             IF m.exc # NoExc THEN [exc |-> m.exc, list |-> <<>>]
             ELSE ApplyTransforms(m.list, Tail(transforms), ds, dir, order))

Returned(val, exc, dir, steps) == [val |-> val, exc |-> exc, dir |-> dir, steps |-> steps]

\* the end of _make_imageset: record the transforms in process.json, save X.npy
imageset_save(dir, images, transforms) ==
    With(UpdateProcess(dir, "Transforms", transforms, PyNone), LAMBDA u :
        IF u.exc # NoExc THEN Returned(PyNone, u.exc, dir, <<"_make_imageset">>)
        ELSE Returned("True", NoExc, WriteFile(u.dir, "X", images), <<"_make_imageset">>))

FileColumn(csv) == [k \in 1 .. Len(csv.rows) |-> csv.rows[k].row.File]
ClassColumn(csv) == [k \in 1 .. Len(csv.rows) |-> csv.rows[k].row.Class]

\* dir is EmptyDir when the dataset directory does not exist
_make_imageset(ds, dir, transforms, order) ==
    IF "log" \notin dir.has THEN Returned("False", NoExc, dir, <<"_make_imageset">>)
    ELSE With(MapOver(Fn("_load_image_array", ""), ds, dir, FileColumn(dir.log), order),
              LAMBDA images :
             IF images.exc = "FileNotFoundError"
             THEN Returned("False", NoExc, dir, <<"_make_imageset">>)
             ELSE With(ApplyTransforms(images.list, transforms, ds, dir, order), LAMBDA t :
                  IF t.exc # NoExc THEN Returned(PyNone, t.exc, dir, <<"_make_imageset">>)
                  ELSE imageset_save(dir, t.list, transforms)))

Bundle(id, bundled) == IF bundled THEN (IF id # 0 THEN 1 ELSE 0) ELSE id

_make_labelset(dir, bundled) ==
    IF "log" \notin dir.has THEN Returned(PyNone, "FileNotFoundError", dir, <<"_make_labelset">>)
    ELSE LET classes == [k \in 1 .. Len(dir.log.rows) |->
                            Bundle(CLASSES[ClassColumn(dir.log)[k]], bundled)]
         IN  With(UpdateProcess(dir, "Bundled", <<>>, PyBool(bundled)), LAMBDA u :
                 IF u.exc # NoExc THEN Returned(PyNone, u.exc, dir, <<"_make_labelset">>)
                 ELSE Returned("True", NoExc, WriteFile(u.dir, "Y", classes),
                               <<"_make_labelset">>))

\* the history a successful make_data leaves: its arguments, and whether it
\* replaced the result of an earlier call with another transform list
Made(before, transforms, bundled) ==
    [ok |-> TRUE, transforms |-> transforms, bundled |-> bundled,
     rerun |-> before.ok /\ before.transforms # transforms]

\* a variant: both steps always run (& in place of and)
make_data_both(a, transforms, bundled) ==
    IF a.exc # NoExc THEN a
    ELSE With(_make_labelset(a.dir, bundled), LAMBDA b :
             Returned(IF b.exc = NoExc THEN PyBool(a.val = "True" /\ b.val = "True")
                      ELSE b.val,
                      b.exc, b.dir, a.steps \o b.steps))

\* _make_imageset(...) and _make_labelset(...), given what _make_imageset
\* returned: the label step runs only when the feature step returned True
make_data_and(a, transforms, bundled) ==
    IF a.exc # NoExc \/ a.val # "True" THEN a
    ELSE With(_make_labelset(a.dir, bundled), LAMBDA b :
             Returned(b.val, b.exc,
                      IF b.exc = NoExc THEN [b.dir EXCEPT !.made = Made(@, transforms, bundled)]
                      ELSE b.dir,
                      a.steps \o b.steps))

make_data(ds, dir, transforms, bundled, order) ==
    With(_make_imageset(ds, dir, transforms, order), LAMBDA a :
        make_data_and(a, transforms, bundled))

get_process(dir) ==
    IF "process" \notin dir.has THEN [exc |-> "FileNotFoundError", data |-> NoDict]
    ELSE LET loaded == json_load(dir.process)
         IN  IF loaded.ok THEN [exc |-> NoExc, data |-> loaded.data]
             ELSE [exc |-> "JSONDecodeError", data |-> NoDict]

DirOf(ds) == IF ds \in DOMAIN datasets THEN datasets[ds] ELSE EmptyDir

(***************************************************************************)
(* pipeline/construction.py: make_imageset                                 *)
(***************************************************************************)
\* f"{dataset}/images/{f}": a ledger entry that is itself a path inside a
\* dataset gives a path under images/ that names no file
JoinImages(ds, f) ==
    IF "ds" \in DOMAIN f
    THEN [ds |-> ds, stem |-> f.stem, ext |-> f.ext, under |-> f.ds]
    ELSE InDataset(ds, f.stem, f.ext)

\* open(process.json, "r+"): json.load reads to the end of the file, and
\* json.dump then writes where the read stopped
UpdateInPlace(dir, key, list, lit) ==
    IF "process" \notin dir.has THEN [exc |-> "FileNotFoundError", dir |-> dir]
    ELSE With(json_load(dir.process), LAMBDA loaded :
        IF ~ loaded.ok THEN [exc |-> "JSONDecodeError", dir |-> dir]
        ELSE [exc |-> NoExc,
              dir |-> [dir EXCEPT !.process =
                          @ \o json_dump(SetKey(loaded.data, key, list, lit))]])

make_imageset(ds, dir, transforms, order) ==
    IF "log" \notin dir.has THEN Returned("False", NoExc, dir, <<"make_imageset">>)
    ELSE With(MapOver(Fn("load_image_array", ""), ds, dir,
                      [k \in 1 .. Len(dir.log.rows) |->
                          JoinImages(ds, FileColumn(dir.log)[k])], order),
              LAMBDA images :
             IF images.exc = "FileNotFoundError"
             THEN Returned("False", NoExc, dir, <<"make_imageset">>)
             ELSE With(ApplyTransforms(images.list, transforms, ds, dir, order), LAMBDA t :
                  IF t.exc # NoExc THEN Returned(PyNone, t.exc, dir, <<"make_imageset">>)
                  ELSE With(UpdateInPlace(dir, "Transforms", transforms, PyNone), LAMBDA u :
                       IF u.exc # NoExc
                       THEN Returned(PyNone, u.exc, dir, <<"make_imageset">>)
                       ELSE Returned("True", NoExc,
                                     [WriteFile(u.dir, "X", t.list) EXCEPT
                                         !.built = [ok |-> TRUE, transforms |-> transforms]],
                                     <<"make_imageset">>))))

(***************************************************************************)
(* Inputs.                                                                 *)
(***************************************************************************)
StartDirs ==
    {{}, {"data"}, {"data", "data/images"}, RootDirs}

\* the store lists a.jpg before b.png; c.jpg is not in the store, m.jpg is missing
FilenameLists == {<<FileB, FileA>>, <<FileC, FileM>>}

ConversionLists == {<<"scale", "gray", "png">>, <<"png", "gray">>}

TransformLists == {<<"t1", "t2">>, <<"t2", "t1">>, <<"t3", "bogus">>}

\* the small inputs of the directory-namespace specification
FewFilenameLists == {<<>>, <<FileA>>}
FewConversionLists == {<<"png">>}

\* the inputs of the specification of both feature builders
OneFilenameLists == {<<FileB>>}
FewTransformLists == {<<>>, <<"t1">>}

\* a caller of new_dataset: the line it is at (pc), which new_dataset it
\* calls, its locals datasets and i, and what it has done so far: the
\* exception it raised, the directory it wrote process.json into, the path
\* it returned
Callers == {"first", "second"}

Proc(pc, op, listing, i, exc, wrote, path) ==
    [pc |-> pc, op |-> op, listing |-> listing, i |-> i, exc |-> exc, wrote |-> wrote,
     path |-> path]

NoProc == Proc("idle", "", {}, -1, NoExc, -1, -1)

(***************************************************************************)
(* The state after start-up: some part of the data tree, the store ledger  *)
(* as store.py keeps it, no dataset.                                       *)
(***************************************************************************)
Init ==
    /\ dirs \in StartDirs
    /\ store_log = IF "data" \in dirs THEN StoreLedger ELSE NoCsv
    /\ datasets = <<>>
    /\ ret = Ret("none", -1, NoExc, PyNone, <<>>)
    /\ frame = NoFrame
    /\ pool = NoPool
    /\ procs = [p \in Callers |-> NoProc]

Idle == frame.op = "idle"

Raised(op, ds, exc) == Ret(op, ds, exc, PyNone, <<>>)
Gave(op, ds, val, steps) == Ret(op, ds, NoExc, val, steps)
\* the call has started and waits for its map
Running(op, ds) == Ret(op, ds, "running", PyNone, <<>>)

\* the dataset paths a caller passes: every dataset there is, and one path
\* that does not exist
Targets == (DOMAIN datasets) \cup {CHOOSE i \in 0 .. MaxDatasets : i \notin DOMAIN datasets}

InitDataStore ==
    /\ Idle
    /\ dirs' = init_data_store(dirs)
    /\ ret' = Gave("init_data_store", -1, PyNone, <<>>)
    /\ UNCHANGED <<store_log, datasets, frame, pool, procs>>

InitLabelStore ==
    /\ Idle
    /\ IF "data" \in dirs
       THEN /\ store_log' = init_label_store
            /\ ret' = Gave("init_label_store", -1, PyNone, <<>>)
       ELSE /\ ret' = Raised("init_label_store", -1, "FileNotFoundError")
            /\ UNCHANGED store_log
    /\ UNCHANGED <<dirs, datasets, frame, pool, procs>>

StorageNewDataset(cap) ==
    /\ Idle
    /\ IF "data/datasets" \notin dirs
       THEN /\ ret' = Raised("storage.new_dataset", -1, "FileNotFoundError")
            /\ UNCHANGED datasets
       ELSE LET i == FreshIndex(DOMAIN datasets)
            IN  /\ i \in Indices
                /\ Cardinality(DOMAIN datasets) < cap
                /\ IF os_mkdir(DOMAIN datasets, i) # NoExc
                   THEN /\ ret' = Raised("storage.new_dataset", i, os_mkdir(DOMAIN datasets, i))
                        /\ UNCHANGED datasets
                   ELSE /\ datasets' = (i :> storage_new_dataset) @@ datasets
                        /\ ret' = Gave("storage.new_dataset", i, "path", <<>>)
    /\ UNCHANGED <<dirs, store_log, frame, pool, procs>>

NewDataset(Filenames, Conversions, cap) ==
    /\ Idle
    /\ \E filenames \in Filenames, conversions \in Conversions, from_store \in BOOLEAN :
         IF "data/datasets" \notin dirs
         THEN /\ ret' = Raised("new_dataset", -1, "FileNotFoundError")
              /\ UNCHANGED datasets
         ELSE LET i == FreshIndex(DOMAIN datasets)
              IN  /\ i \in Indices
                  /\ Cardinality(DOMAIN datasets) < cap
                  /\ IF os_mkdir(DOMAIN datasets, i) # NoExc
                     THEN /\ ret' = Raised("new_dataset", i, os_mkdir(DOMAIN datasets, i))
                          /\ UNCHANGED datasets
                     ELSE \E order \in Perms(TaskCount(store_log, filenames, conversions, from_store)) :
                          \E r \in {new_dataset(i, store_log, filenames, conversions,
                                                  from_store, order)} :
                                /\ datasets' = (i :> r.dir) @@ datasets
                                /\ ret' = IF r.exc = NoExc
                                          THEN Gave("new_dataset", i, "path", <<>>)
                                          ELSE Raised("new_dataset", i, r.exc)
    /\ UNCHANGED <<dirs, store_log, frame, pool, procs>>

DeleteDataset ==
    /\ Idle
    /\ \E ds \in Targets :
         IF ds \in DOMAIN datasets
         THEN /\ datasets' = [j \in (DOMAIN datasets) \ {ds} |-> datasets[j]]
              /\ ret' = Gave("delete_dataset", ds, PyNone, <<>>)
         ELSE /\ ret' = Raised("delete_dataset", ds, "FileNotFoundError")
              /\ UNCHANGED datasets
    /\ UNCHANGED <<dirs, store_log, frame, pool, procs>>

MakeData(Transforms) ==
    /\ Idle
    /\ \E ds \in Targets, transforms \in Transforms, bundled \in BOOLEAN :
         \E order \in Perms(Len(DirOf(ds).log.rows)) :
            \E r \in {make_data(ds, DirOf(ds), transforms, bundled, order)} :
                /\ datasets' = IF ds \in DOMAIN datasets
                               THEN [datasets EXCEPT ![ds] = r.dir]
                               ELSE datasets
                /\ ret' = Ret("make_data", ds, r.exc, r.val, r.steps)
    /\ UNCHANGED <<dirs, store_log, frame, pool, procs>>

MakeImageset ==
    /\ Idle
    /\ \E ds \in Targets, transforms \in FewTransformLists :
         \E order \in Perms(Len(DirOf(ds).log.rows)) :
            \E r \in {make_imageset(ds, DirOf(ds), transforms, order)} :
                /\ datasets' = IF ds \in DOMAIN datasets
                               THEN [datasets EXCEPT ![ds] = r.dir]
                               ELSE datasets
                /\ ret' = Ret("make_imageset", ds, r.exc, r.val, r.steps)
    /\ UNCHANGED <<dirs, store_log, frame, pool, procs>>

GetProcess ==
    /\ Idle
    /\ \E ds \in Targets :
         ret' = Raised("get_process", ds, get_process(DirOf(ds)).exc)
    /\ UNCHANGED <<dirs, store_log, datasets, frame, pool, procs>>

(***************************************************************************)
(* The same calls with the pool's workers as steps of their own.  A call   *)
(* that maps starts the pool and waits; workers take and finish tasks in   *)
(* any order, at most POOL_SIZE at a time; when every task is done the map *)
(* returns (or raises) and the caller goes on.                             *)
(***************************************************************************)
NewDatasetCall(Filenames, Conversions, cap) ==
    /\ Idle
    /\ "data/datasets" \in dirs
    /\ \E filenames \in Filenames, conversions \in Conversions, from_store \in BOOLEAN :
         LET i == FreshIndex(DOMAIN datasets)
             c == new_dataset_call(i, store_log, filenames, conversions, from_store)
         IN  /\ i \in Indices \ DOMAIN datasets
             /\ Cardinality(DOMAIN datasets) < cap
             /\ datasets' = (i :> c.dir) @@ datasets
             /\ IF c.exc # NoExc
                THEN /\ ret' = Raised("new_dataset", i, c.exc)
                     /\ UNCHANGED <<frame, pool>>
                ELSE /\ frame' = Frame("new_dataset", "map", i, <<>>, <<>>, FALSE, NoExc, <<>>,
                                        Meta(c.dir))
                     /\ pool' = c.pool
                     /\ ret' = Running("new_dataset", i)
    /\ UNCHANGED <<dirs, store_log, procs>>

MakeDataCall ==
    /\ Idle
    /\ \E ds \in Targets, transforms \in TransformLists, bundled \in BOOLEAN :
         IF "log" \notin DirOf(ds).has
         THEN /\ ret' = Gave("make_data", ds, "False", <<"_make_imageset">>)
              /\ UNCHANGED <<frame, pool>>
         ELSE /\ frame' = Frame("make_data", "map", ds, transforms, transforms, bundled,
                                NoExc, <<>>, Meta(DirOf(ds)))
              /\ pool' = NewPool(Fn("_load_image_array", ""), FALSE, ds,
                                 FileColumn(DirOf(ds).log))
              /\ ret' = Running("make_data", ds)
    /\ UNCHANGED <<dirs, store_log, datasets, procs>>

WorkerTake ==
    /\ frame.stage = "map"
    /\ Cardinality(pool.taken) < POOL_SIZE
    /\ \E k \in (1 .. Len(pool.args)) \ (pool.taken \cup Range(pool.done)) :
         pool' = [pool EXCEPT !.taken = @ \cup {k}]
    /\ UNCHANGED <<dirs, store_log, datasets, ret, frame, procs>>

WorkerDone ==
    /\ frame.stage = "map"
    /\ \E k \in pool.taken :
         \E s \in {WorkerRun(datasets[pool.ds], pool, k)} :
             /\ datasets' = [datasets EXCEPT ![pool.ds] = s.dir]
             /\ pool' = s.pool
    /\ UNCHANGED <<dirs, store_log, ret, frame, procs>>

\* every task is done: map/starmap returns the list, or raises
MapReturns ==
    /\ frame.stage = "map"
    /\ Len(pool.done) = Len(pool.args)
    /\ \E m \in {process_map(pool)} :
         frame' = [frame EXCEPT !.stage = "mapped", !.exc = m.exc, !.list = m.list]
    /\ UNCHANGED <<dirs, store_log, datasets, ret, pool, procs>>

\* new_dataset after its map
NewDatasetReturn ==
    /\ frame.stage = "mapped"
    /\ frame.op = "new_dataset"
    /\ IF frame.exc # NoExc
       THEN /\ ret' = Raised("new_dataset", frame.ds, frame.exc)
            /\ UNCHANGED datasets
       ELSE /\ datasets' = [datasets EXCEPT ![frame.ds] = new_dataset_return(@, frame.list)]
            /\ ret' = Gave("new_dataset", frame.ds, "path", <<>>)
    /\ frame' = NoFrame
    /\ pool' = NoPool
    /\ UNCHANGED <<dirs, store_log, procs>>

\* _make_imageset after a map: the except clause, the next transform's map,
\* or the end of the loop and the rest of make_data
MakeDataGoesOn ==
    /\ frame.stage = "mapped"
    /\ frame.op = "make_data"
    /\ IF frame.exc # NoExc
       THEN /\ ret' = IF frame.exc = "FileNotFoundError" /\ pool.f.name = "_load_image_array"
                      THEN Gave("make_data", frame.ds, "False", <<"_make_imageset">>)
                      ELSE Raised("make_data", frame.ds, frame.exc)
            /\ frame' = NoFrame
            /\ pool' = NoPool
            /\ UNCHANGED datasets
       ELSE IF frame.todo # <<>> /\ Head(frame.todo) \in TransformKeys
       THEN /\ frame' = [frame EXCEPT !.stage = "map", !.todo = Tail(@), !.list = <<>>,
                                      !.before = Meta(datasets[frame.ds])]
            /\ pool' = NewPool(Fn("TRANSFORMS", Head(frame.todo)), FALSE, frame.ds, frame.list)
            /\ UNCHANGED <<ret, datasets>>
       ELSE IF frame.todo # <<>>
       THEN /\ ret' = Raised("make_data", frame.ds, "KeyError")
            /\ frame' = NoFrame
            /\ pool' = NoPool
            /\ UNCHANGED datasets
       ELSE \E a \in {imageset_save(datasets[frame.ds], frame.list, frame.transforms)} :
            \E r \in {make_data_and(a, frame.transforms, frame.bundled)} :
                /\ datasets' = [datasets EXCEPT ![frame.ds] = r.dir]
                /\ ret' = Ret("make_data", frame.ds, r.exc, r.val, r.steps)
                /\ frame' = NoFrame
                /\ pool' = NoPool
    /\ UNCHANGED <<dirs, store_log, procs>>

(***************************************************************************)
(* Two callers in new_dataset at once.  Each runs the function's lines in  *)
(* order: os.listdir, the choice of i, os.mkdir, the writes into the new   *)
(* directory, the rest of the function and the return.                     *)
(***************************************************************************)
InFlight == {p \in Callers : procs[p].pc \in {"listed", "chosen", "made", "written"}}

\* new_dataset(["a.jpg"], ["png"]) of dataset.py, or new_dataset() of storage.py
Listdir ==
    /\ "data/datasets" \in dirs
    /\ \E p \in Callers, op \in {"new_dataset", "storage.new_dataset"} :
         /\ procs[p].pc \in {"idle", "returned", "raised"}
         /\ Cardinality(DOMAIN datasets) + Cardinality(InFlight) < MaxDatasets
         /\ procs' = [procs EXCEPT ![p] = Proc("listed", op, DOMAIN datasets, -1, NoExc, -1, -1)]
    /\ UNCHANGED <<dirs, store_log, datasets, ret, frame, pool>>

ChooseIndex ==
    /\ \E p \in Callers :
         /\ procs[p].pc = "listed"
         /\ procs' = [procs EXCEPT ![p].pc = "chosen", ![p].i = FreshIndex(procs[p].listing)]
    /\ UNCHANGED <<dirs, store_log, datasets, ret, frame, pool>>

Mkdir ==
    /\ \E p \in Callers :
         /\ procs[p].pc = "chosen"
         /\ IF os_mkdir(DOMAIN datasets, procs[p].i) # NoExc
            THEN /\ procs' = [procs EXCEPT ![p].pc = "raised",
                                           ![p].exc = os_mkdir(DOMAIN datasets, procs[p].i)]
                 /\ UNCHANGED datasets
            ELSE /\ procs' = [procs EXCEPT ![p].pc = "made"]
                 /\ datasets' = (procs[p].i :> EmptyDir) @@ datasets
    /\ UNCHANGED <<dirs, store_log, ret, frame, pool>>

\* dataset.py: process.json; storage.py: log.csv and process.json
WriteProcess ==
    /\ \E p \in Callers :
         /\ procs[p].pc = "made"
         /\ procs' = [procs EXCEPT ![p].pc = "written", ![p].wrote = procs[p].i]
         /\ datasets' = [datasets EXCEPT ![procs[p].i] =
                IF procs[p].op = "storage.new_dataset" THEN storage_new_dataset
                ELSE new_dataset_call(procs[p].i, store_log, <<FileA>>, <<"png">>, TRUE).dir]
    /\ UNCHANGED <<dirs, store_log, ret, frame, pool>>

Return ==
    /\ \E p \in Callers :
         /\ procs[p].pc = "written"
         /\ IF procs[p].op = "storage.new_dataset"
            THEN /\ procs' = [procs EXCEPT ![p].pc = "returned", ![p].path = procs[p].i]
                 /\ UNCHANGED datasets
            ELSE \E r \in {new_dataset(procs[p].i, store_log, <<FileA>>, <<"png">>, TRUE, <<1>>)} :
                 /\ datasets' = [datasets EXCEPT ![procs[p].i] = r.dir]
                 /\ procs' = IF r.exc = NoExc
                             THEN [procs EXCEPT ![p].pc = "returned", ![p].path = procs[p].i]
                             ELSE [procs EXCEPT ![p].pc = "raised", ![p].exc = r.exc]
    /\ UNCHANGED <<dirs, store_log, ret, frame, pool>>

(***************************************************************************)
(* Spec: the pipeline, every call a step.  StoreSpec: the directory        *)
(* namespace with both constructors.  BuildSpec: the feature builders of   *)
(* dataset.py and construction.py side by side.  PoolSpec: the pipeline    *)
(* with the pool's workers as steps.  RaceSpec: two callers inside         *)
(* new_dataset at once, line by line.                                      *)
(***************************************************************************)
Next ==
    \/ InitDataStore
    \/ NewDataset(FilenameLists, ConversionLists, MaxLive)
    \/ DeleteDataset
    \/ MakeData(TransformLists)
    \/ GetProcess

Spec == Init /\ [][Next]_vars

StoreNext ==
    \/ InitDataStore
    \/ StorageNewDataset(MaxDatasets)
    \/ NewDataset(FewFilenameLists, FewConversionLists, MaxDatasets)
    \/ DeleteDataset
    \/ GetProcess

StoreSpec == Init /\ [][StoreNext]_vars

BuildNext ==
    \/ InitDataStore
    \/ StorageNewDataset(MaxLive)
    \/ NewDataset(OneFilenameLists, FewConversionLists, MaxLive)
    \/ DeleteDataset
    \/ MakeData(FewTransformLists)
    \/ MakeImageset
    \/ GetProcess

BuildSpec == Init /\ [][BuildNext]_vars

PoolNext ==
    \/ InitDataStore
    \/ NewDatasetCall(FilenameLists, ConversionLists, MaxLive)
    \/ MakeDataCall
    \/ WorkerTake
    \/ WorkerDone
    \/ MapReturns
    \/ NewDatasetReturn
    \/ MakeDataGoesOn
    \/ DeleteDataset

PoolSpec == Init /\ [][PoolNext]_vars

RaceNext ==
    \/ InitDataStore
    \/ Listdir
    \/ ChooseIndex
    \/ Mkdir
    \/ WriteProcess
    \/ Return

RaceSpec == Init /\ [][RaceNext]_vars

(***************************************************************************)
(* Properties.                                                             *)
(***************************************************************************)
\* the step creates a dataset directory through one of the two new_dataset
Creates ==
    /\ ret'.op \in {"new_dataset", "storage.new_dataset"}
    /\ DOMAIN datasets' # DOMAIN datasets

\* C1 as stated: a call to new_dataset creates dataset-<i> with i greater
\* than or equal to the number of dataset directories that existed just
\* before the call, and dataset-<i> did not exist before the call.
C1_SuffixAtLeastCount ==
    [][Creates => /\ ret'.ds >= Cardinality(DOMAIN datasets)
                  /\ ret'.ds \notin DOMAIN datasets]_vars

\* C1, amended: a call to new_dataset creates exactly one directory
\* dataset-<i>, where i is the smallest index no existing dataset directory
\* uses; so i is at most the number of directories that existed before the
\* call, and dataset-<i> did not exist before the call.
C1_SmallestUnused ==
    [][Creates => /\ ret'.ds \notin DOMAIN datasets
                  /\ DOMAIN datasets' = DOMAIN datasets \cup {ret'.ds}
                  /\ \A j \in 0 .. (ret'.ds - 1) : j \in DOMAIN datasets
                  /\ ret'.ds <= Cardinality(DOMAIN datasets)]_vars

\* dataset-0 was created while dataset-1 existed: an index below the count
C1_ReusedIndex ==
    /\ ret.op \in {"new_dataset", "storage.new_dataset"}
    /\ ret.exc = NoExc
    /\ ret.ds = 0
    /\ {0, 1} \subseteq DOMAIN datasets

\* C2: when log.csv is absent as make_data is called, make_data returns
\* False, only the feature step has run (the label step has not), and the
\* dataset directory, X.npy, Y.npy and process.json included, is as it was.
C2_NoLedgerNoData ==
    [][(ret'.op = "make_data" /\ "log" \notin DirOf(ret'.ds).has)
          => /\ ret'.exc = NoExc
             /\ ret'.val = "False"
             /\ ret'.steps = <<"_make_imageset">>
             /\ datasets' = datasets]_vars

\* make_data has returned False on a dataset directory that has its
\* process.json and no log.csv
C2_ReturnedFalse ==
    /\ ret.op = "make_data"
    /\ ret.val = "False"
    /\ ret.ds \in DOMAIN datasets
    /\ "process" \in datasets[ret.ds].has
    /\ "log" \notin datasets[ret.ds].has
    /\ {"X", "Y"} \cap datasets[ret.ds].has = {}

\* the feature artifact of a dataset for a transform list: one array per
\* ledger row, decoded from the row's file, with the transforms in order
Artifact(dir, transforms) ==
    [k \in 1 .. Len(dir.log.rows) |->
        [src |-> dir.images[dir.log.rows[k].row.File].src,
         hist |-> dir.images[dir.log.rows[k].row.File].hist,
         tf |-> transforms]]

\* C3: once make_data has succeeded on a dataset, get_process gives
\* Transforms equal to the transform list of the most recent successful
\* call, in its order, Bundled equal to that call's flag, Conversions as the
\* constructor wrote them, and X.npy is the artifact of that call.
C3_LastMakeData ==
    \A d \in DOMAIN datasets :
        datasets[d].made.ok =>
            /\ get_process(datasets[d]).exc = NoExc
            /\ get_process(datasets[d]).data.Transforms = datasets[d].made.transforms
            /\ get_process(datasets[d]).data.Bundled = PyBool(datasets[d].made.bundled)
            /\ get_process(datasets[d]).data.Conversions = datasets[d].req.conversions
            /\ "X" \in datasets[d].has
            /\ datasets[d].X = Artifact(datasets[d], datasets[d].made.transforms)

\* a second successful make_data, with another transform list, on a dataset
\* of two images
C3_Rerun ==
    \E d \in DOMAIN datasets :
        /\ datasets[d].made.ok
        /\ datasets[d].made.rerun
        /\ datasets[d].made.transforms = <<"t2", "t1">>
        /\ Len(datasets[d].X) = 2
        /\ ret = Gave("make_data", d, "True", <<"_make_imageset", "_make_labelset">>)

\* the conversions of a list whose flag is not true, in the list's order
RECURSIVE NotFlagged(_, _)
NotFlagged(flags, cs) ==
    IF cs = <<>> THEN <<>>
    ELSE IF flags[Head(cs)] THEN NotFlagged(flags, Tail(cs))
    ELSE <<Head(cs)>> \o NotFlagged(flags, Tail(cs))

\* what the claim has each task of a constructor call apply
ToApply(req) ==
    IF req.from_store
    THEN LET rows == SelectSeq(store_log.rows, LAMBDA x : x.row.File \in Range(req.filenames))
         IN  [k \in 1 .. Len(rows) |->
                 Called(rows[k].row.File, NotFlagged(rows[k].row.flags, req.conversions))]
    ELSE [k \in 1 .. Len(req.filenames) |-> Called(req.filenames[k], req.conversions)]

IsPrefix(s, t) == Len(s) <= Len(t) /\ s = SubSeq(t, 1, Len(s))

\* where a file of SrcDisk ends up inside a dataset after its conversions
OutputPath(ds, file, convs) ==
    InDataset(ds, file.stem, IF "png" \in Range(convs) THEN "png" ELSE file.ext)

\* C4: in new_dataset the task of each selected file invokes, in the
\* requested order, the requested conversions the store ledger does not flag
\* true for that file (from_store=True), or every requested conversion
\* (from_store=False): always a prefix of that list, the whole list when
\* the call returns, and the image then carries exactly those conversions.
C4_ConversionsApplied ==
    \A d \in DOMAIN datasets :
        datasets[d].req.via = "dataset" =>
            /\ DOMAIN datasets[d].calls = 1 .. Len(ToApply(datasets[d].req))
            /\ \A k \in DOMAIN datasets[d].calls :
                 /\ datasets[d].calls[k].file = ToApply(datasets[d].req)[k].file
                 /\ IsPrefix(datasets[d].calls[k].convs, ToApply(datasets[d].req)[k].convs)
                 /\ "log" \in datasets[d].has =>
                      /\ datasets[d].calls[k].convs = ToApply(datasets[d].req)[k].convs
                      /\ \A fp \in {OutputPath(d, datasets[d].calls[k].file,
                                               datasets[d].calls[k].convs)}
                                   \cap DOMAIN datasets[d].images :
                            datasets[d].images[fp].hist =
                                SrcDisk[datasets[d].calls[k].file].hist
                                    \o ToApply(datasets[d].req)[k].convs

\* a from_store call has returned; a.jpg, flagged gray in the store, had
\* scale and png applied and gray left out
C4_SkippedFlagged ==
    /\ ret.op = "new_dataset"
    /\ ret.exc = NoExc
    /\ ret.ds \in DOMAIN datasets
    /\ datasets[ret.ds].req.from_store
    /\ datasets[ret.ds].req.conversions = <<"scale", "gray", "png">>
    /\ \E k \in DOMAIN datasets[ret.ds].calls :
         datasets[ret.ds].calls[k] = Called(FileA, <<"scale", "png">>)

\* C5 as stated: after init_data_store returns, data, data/images and
\* data/datasets all exist, whatever was there before.
C5_AllExist ==
    (ret.op = "init_data_store" /\ ret.exc = NoExc) => RootDirs \subseteq dirs

\* C6: when a map returns, it returns one output per input, output k being
\* f applied to input k (to the unpacked tuple k in packed mode), whatever
\* order the workers finished in; and after new_dataset returns, row k of
\* the dataset ledger pairs the output path of entry k with entry k's class.
C6_InputOrder ==
    /\ (frame.stage = "mapped" /\ frame.exc = NoExc) =>
          /\ Len(frame.list) = Len(pool.args)
          /\ \A k \in 1 .. Len(pool.args) :
               frame.list[k] = Call(pool.f, pool.packed, pool.ds, datasets[pool.ds], k,
                                    pool.args[k]).val
    /\ (ret.op = "new_dataset" /\ ret.exc = NoExc /\ ret.ds \in DOMAIN datasets) =>
          /\ Len(datasets[ret.ds].log.rows) = Len(datasets[ret.ds].entries)
          /\ \A k \in 1 .. Len(datasets[ret.ds].entries) :
               datasets[ret.ds].log.rows[k] =
                   [Index |-> k - 1,
                    row |-> [File |-> OutputPath(ret.ds, datasets[ret.ds].entries[k].r.File,
                                                 datasets[ret.ds].entries[k].convs),
                             Class |-> datasets[ret.ds].entries[k].r.Class]]

\* the packed map of new_dataset has returned two different paths, its
\* second task having finished first
C6_FinishedInReverse ==
    /\ frame.stage = "mapped"
    /\ frame.op = "new_dataset"
    /\ frame.exc = NoExc
    /\ pool.packed
    /\ pool.done = <<2, 1>>
    /\ frame.list[1] # frame.list[2]

\* C7: when a task of a map has raised, process.json and log.csv of the
\* dataset are, once the map is over and after the caller's next step (its
\* raise, or the False of the feature step), as they were when the map
\* began, and no dataset directory has come or gone.
C7_FailedMapKeepsMeta ==
    [][(frame.stage = "mapped" /\ Failed(pool) # {})
          => /\ Meta(datasets[frame.ds]) = frame.before
             /\ DOMAIN datasets' = DOMAIN datasets
             /\ Meta(datasets'[frame.ds]) = frame.before]_vars

\* make_data has raised the ValueError of a transform that failed in its map
C7_TransformRaised ==
    /\ ret = Raised("make_data", ret.ds, "ValueError")
    /\ ret.ds \in DOMAIN datasets
    /\ frame = NoFrame
    /\ {"process", "log"} \subseteq datasets[ret.ds].has

\* C8 as stated: a feature builder returns False only when the dataset has
\* no log.csv.
C8_FalseOnlyWithoutLedger ==
    (/\ ret.op \in {"make_data", "make_imageset"}
     /\ ret.exc = NoExc
     /\ ret.val = "False"
     /\ ret.steps \in {<<"_make_imageset">>, <<"make_imageset">>})
        => "log" \notin DirOf(ret.ds).has

\* C9 as stated: after make_imageset of construction.py has returned True,
\* get_process succeeds and gives the record with Transforms the given list
\* and Conversions unchanged.
C9_RecordWellFormed ==
    (ret.op = "make_imageset" /\ ret.val = "True" /\ ret.ds \in DOMAIN datasets) =>
        /\ get_process(datasets[ret.ds]).exc = NoExc
        /\ get_process(datasets[ret.ds]).data.Transforms = datasets[ret.ds].built.transforms
        /\ get_process(datasets[ret.ds]).data.Conversions = datasets[ret.ds].req.conversions

\* the caller is past its os.mkdir
PastMkdir(p) == procs[p].pc \in {"made", "written", "returned", "raised"}

\* the caller's os.mkdir raised, and the caller wrote nothing
FailedAtMkdir(p) ==
    /\ procs[p].pc = "raised"
    /\ procs[p].exc = "FileExistsError"
    /\ procs[p].wrote = -1
    /\ procs[p].path = -1

\* C10: of two calls of new_dataset that overlap, never both return the
\* same path and never both write process.json into the same directory; when
\* both have chosen the same index and both are past os.mkdir, one of them
\* (the one whose mkdir came second) raised FileExistsError and wrote nothing.
C10_OneOwner ==
    \A p, q \in Callers :
        p # q =>
            /\ (procs[p].pc = "returned" /\ procs[q].pc = "returned")
                  => procs[p].path # procs[q].path
            /\ (procs[p].wrote # -1 /\ procs[q].wrote # -1)
                  => procs[p].wrote # procs[q].wrote
            /\ (procs[p].i # -1 /\ procs[p].i = procs[q].i /\ PastMkdir(p) /\ PastMkdir(q))
                  => (FailedAtMkdir(p) /\ ~ FailedAtMkdir(q))
                         \/ (FailedAtMkdir(q) /\ ~ FailedAtMkdir(p))

\* both callers chose the same index; one returned it, the other's mkdir raised
C10_Collision ==
    \E p, q \in Callers :
        /\ p # q
        /\ procs[p].pc = "returned"
        /\ FailedAtMkdir(q)
        /\ procs[q].i = procs[p].path

====
